---- MODULE Spec2Model ----
(***************************************************************************)
(* The game manager of the Ludo WebSocket server                           *)
(* (src/server/websocket/server.py): the registry of games, the            *)
(* connection handlers that run on one asyncio event loop and interleave   *)
(* while a broadcast is suspended on an outbound send, and the delayed     *)
(* clean-up tasks.                                                         *)
(*                                                                         *)
(* One step is the code one task runs between two suspension points: from  *)
(* the receipt of a message, or from the completion of the send a          *)
(* broadcast is suspended on, up to the next send of a broadcast or to the *)
(* end of the handler. A send of handle_client_message to the handler's    *)
(* own websocket (game_joined, game_state_update, error) is run through:   *)
(* it writes no shared state, and the handler reads none after it other    *)
(* than for the payload of the reply.                                      *)
(***************************************************************************)
EXTENDS Integers, Sequences, FiniteSets, TLC

\* ------------------------------------------------------------------ bounds
NumConns == 3       \* connections accepted (each gets a fresh player_id)
MaxMsgs == 3        \* inbound messages processed, over all connections
MaxInvitations == 2 \* invitations the bot creates
TickHours == 12     \* hours the bot's clock advances in one step
MaxClock == 48      \* the bot's clock stops here

\* --------------------------------------------------------- program constants
MAX_PLAYERS == 4    \* len(game.players) < 4
MIN_PLAYERS == 2    \* len(game.players) >= 2
DICE_MAX == 6       \* random.randint(1, 6)
EXPIRY_HOURS == 24  \* bot: timedelta(hours=24)

Conns == 1..NumConns
\* A game id (uuid4) is allocated by a join_game message only.
GameIds == 1..MaxMsgs
None == 0

\* class PlayerColor, in definition order
PlayerColor == <<"red", "green", "blue", "yellow">>

\* class GamePhase, in definition order
GamePhase == <<"waiting", "playing", "finished">>

VARIABLES
    games,          \* GameManager.games: the keys, in insertion order
    heap,           \* the GameState objects, by game id (kept while referenced)
    nextGame,       \* game ids allocated so far
    player_to_game, \* GameManager.player_to_game (None: no entry)
    alive,          \* alive[c]: the transport of connection c is open
    task,           \* task[c]: where the handler task of connection c stands
    timers,         \* pending _cleanup_empty_game tasks, oldest first
    msgs,           \* inbound messages processed so far
    output,         \* what the last step put out, in order: the events
                    \* delivered to connections and the errors logged; for
                    \* a clean-up task, the record of its run; for the
                    \* bot, what accept_invitation returned
    game_invitations, \* bot: BotGameManager.game_invitations, by invitation
                    \* id (ids are numbered in the order of creation)
    clock           \* bot: datetime.utcnow(), in hours

vars == <<games, heap, nextGame, player_to_game, alive, task, timers, msgs, output,
          game_invitations, clock>>

\* The state of the server and the state of the bot, two programs.
server == <<games, heap, nextGame, player_to_game, alive, task, timers, msgs>>
bot == <<game_invitations, clock>>

\* ------------------------------------------------------------ data model

\* A game id that names no live object.
NoGame == [players |-> <<>>, current_player_index |-> 0, phase |-> "none",
           last_dice_roll |-> 0]

\* The handler of a connection waiting in `async for message in websocket`.
\* In a broadcast: op the operation that broadcasts, gid its game, idx the
\* position of the player whose send is awaited, used the size of the dict
\* when the loop began, excl the excluded player; got and failed record the
\* players this broadcast has delivered to and failed to deliver to.
IdleFrame == [pc |-> "idle", op |-> "", gid |-> None, idx |-> 0, used |-> 0,
              excl |-> None, got |-> {}, failed |-> {}]

\* The handler of a connection whose `finally` block has run.
DoneFrame == [IdleFrame EXCEPT !.pc = "done"]

\* The websocket object of connection c (one per connection, never replaced).
WS(c) == c

\* An outbound event: its recipient, its type, the game it names (None for
\* an error) and the text of an error or the gamePhase of a
\* game_state_update.
Event(c, type, g, msg) ==
    [to |-> c, type |-> type, gid |-> g, msg |-> msg, ctx |-> ""]

\* server_logger.log_error(e, context, ...)
Log(ctx, err) ==
    [to |-> None, type |-> "log_error", gid |-> None, msg |-> err, ctx |-> ctx]

\* The run of the clean-up task of game g after its sleep: did is
\* "game_cleaned_up" (the log_game_event of line 456) when it has removed
\* the game, "" when it has done nothing.
CleanupRun(g, did) ==
    [to |-> None, type |-> "cleanup_run", gid |-> g, msg |-> did,
     ctx |-> "_cleanup_empty_game"]

\* The log_game_event of cleanup_finished_games for a game it has removed.
SweepRun(g) ==
    [to |-> None, type |-> "sweep_run", gid |-> g,
     msg |-> "finished_game_cleanup", ctx |-> "cleanup_finished_games"]

\* A pending clean-up task: the game id it holds; rejoined records that a
\* player of that game has reconnected (join_game, lines 230-231) since the
\* task was created.
Timer(g) == [gid |-> g, rejoined |-> FALSE]

\* The pending clean-up tasks after a reconnection to game g.
Rejoined(tm, g) ==
    [k \in 1..Len(tm) |-> IF tm[k].gid = g THEN [tm[k] EXCEPT !.rejoined = TRUE]
                          ELSE tm[k]]

Registered(g) == \E i \in 1..Len(games) : games[i] = g

Ids(hp, g) == {hp[g].players[i].id : i \in 1..Len(hp[g].players)}

PlayerIndex(hp, g, c) ==
    IF c \in Ids(hp, g)
    THEN CHOOSE i \in 1..Len(hp[g].players) : hp[g].players[i].id = c
    ELSE 0

Remove(seq, x) == SelectSeq(seq, LAMBDA y : y # x)

\* The heap a step leaves, given the heap hp its code has written: a game
\* object lives while self.games holds it or a suspended broadcast iterates
\* over it (its `game` local); an unreferenced object is freed.
Collect(hp) ==
    [g \in GameIds |->
        IF \/ \E i \in 1..Len(games') : games'[i] = g
           \/ \E c \in Conns : task'[c].pc = "broadcast" /\ task'[c].gid = g
        THEN hp[g] ELSE NoGame]

\* A variant of connected_players that finds nobody connected.
connected_players_Zero(hp, g) == 0

\* sum(1 for p in game.players.values() if p.is_connected)
connected_players(hp, g) ==
    Cardinality({i \in 1..Len(hp[g].players) : hp[g].players[i].is_connected})

\* A variant of _get_available_color that takes the last free color.
get_available_color_LastFree(game) ==
    LET used_colors == {game.players[i].color : i \in 1..Len(game.players)}
        available_colors == SelectSeq(PlayerColor, LAMBDA col : col \notin used_colors)
    IN  IF available_colors # <<>> THEN available_colors[Len(available_colors)]
        ELSE "red"

\* A variant of _get_available_color that ignores the colors in use.
get_available_color_First(game) == PlayerColor[1]

\* GameManager._get_available_color
get_available_color(game) ==
    LET used_colors == {game.players[i].color : i \in 1..Len(game.players)}
        available_colors == SelectSeq(PlayerColor, LAMBDA col : col \notin used_colors)
    IN  IF available_colors # <<>> THEN available_colors[1] ELSE "red"

\* Player(id, name, websocket, color, pieces=[]), is_connected defaulting to True
Player(c, color) ==
    [id |-> c, color |-> color, websocket |-> WS(c), is_connected |-> TRUE]

\* ------------------------------------------------- handler continuations

\* The error event handle_client_message sends for the exception `err`
\* (line 602); when that send raises too, handle_websocket_connection logs.
ErrorReply(c, err) ==
    <<Log("handle_client_message", err)>> \o
    (IF alive[WS(c)] THEN <<Event(c, "error", None, err)>>
     ELSE <<Log("message_processing", "ConnectionClosed")>>)

\* A variant of Reply that sends only the last of the events.
Reply_LastOnly(c, evs) ==
    IF alive[WS(c)] THEN <<evs[Len(evs)]>> ELSE ErrorReply(c, "ConnectionClosed")

\* The events `evs`, sent in order to the handler's own websocket from the
\* try block of handle_client_message: delivered when the transport is
\* open; when it is closed the first send raises.
Reply(c, evs) == IF alive[WS(c)] THEN evs ELSE ErrorReply(c, "ConnectionClosed")

\* An exception leaves the operation `op` of handler c, after the output
\* `out` of this step; tm are the pending clean-up tasks. join_game and
\* handle_dice_roll log and re-raise (handle_client_message then sends an
\* error event); handle_chat_message and handle_player_disconnect log only.
\* err = "": the operation ends with no exception.
Raise(c, op, err, out, tm) ==
    /\ timers' = tm
    /\ task' = [task EXCEPT ![c] = IF op = "close" THEN DoneFrame ELSE IdleFrame]
    /\ output' =
        CASE err = "" -> out
          [] op = "join_game" -> out \o <<Log("join_game", err)>> \o ErrorReply(c, err)
          [] op = "roll_dice" -> out \o <<Log("handle_dice_roll", err)>> \o ErrorReply(c, err)
          [] op = "chat_message" -> out \o <<Log("handle_chat_message", err)>>
          [] OTHER -> out \o <<Log("handle_player_disconnect", err)>>

\* _broadcast_to_game has returned to the operation `op` of handler c: the
\* code that follows the broadcast, up to the end of the handler. hp is the
\* heap the step leaves, out its output so far, tm the pending clean-up tasks.
Return(c, op, g, hp, out, tm) ==
    CASE op = "join_game" ->
            \* game = game_manager.games[game_id], then the two sends
            /\ timers' = tm
            /\ task' = [task EXCEPT ![c] = IdleFrame]
            /\ output' = out \o
                    (IF \E i \in 1..Len(games') : games'[i] = g
                     THEN Reply(c, <<Event(c, "game_joined", g, ""),
                                     Event(c, "game_state_update", g, hp[g].phase)>>)
                     ELSE ErrorReply(c, "KeyError"))
      [] op \in {"roll_dice", "chat_message"} ->
            /\ timers' = tm
            /\ task' = [task EXCEPT ![c] = IdleFrame]
            /\ output' = out
      [] op \in {"leave_game", "close"} ->
            \* asyncio.create_task(self._cleanup_empty_game(game_id, delay=300))
            /\ timers' = IF connected_players(hp, g) = 0
                         THEN Append(tm, Timer(g)) ELSE tm
            /\ task' = [task EXCEPT ![c] =
                    IF op = "close" THEN DoneFrame ELSE IdleFrame]
            /\ output' = out

\* ------------------------------------------------------------- broadcast

\* The type of the event each operation broadcasts
BroadcastType(op) ==
    CASE op = "join_game" -> "game_state_update"
      [] op = "roll_dice" -> "dice_rolled"
      [] op = "chat_message" -> "chat_message"
      [] op \in {"leave_game", "close"} -> "player_disconnected"

\* A variant of NextRecipient whose loop ends at the first send that raised
\* (the try placed around the loop instead of around the send).
NextRecipient_StopAtFailure(hp, g, from, excl) ==
    LET ps == hp[g].players
        ok == {i \in from..Len(ps) :
                  /\ ~(excl # None /\ ps[i].id = excl)
                  /\ ps[i].is_connected /\ ps[i].websocket # None}
    IN  IF ok = {} \/ (from > 1 /\ ~ps[from - 1].is_connected) THEN 0
        ELSE CHOOSE i \in ok : \A j \in ok : i <= j

\* The first player at position >= from that the loop of _broadcast_to_game
\* sends to: not the excluded one, is_connected and with a websocket.
NextRecipient(hp, g, from, excl) ==
    LET ps == hp[g].players
        ok == {i \in from..Len(ps) :
                  /\ ~(excl # None /\ ps[i].id = excl)
                  /\ ps[i].is_connected /\ ps[i].websocket # None}
    IN  IF ok = {} THEN 0 ELSE CHOOSE i \in ok : \A j \in ok : i <= j

\* The loop of _broadcast_to_game from position `from`: suspend on the next
\* send, or return to the caller.
BroadcastLoop(c, op, g, excl, from, used, got, failed, hp, out, tm) ==
    LET i == NextRecipient(hp, g, from, excl)
    IN  IF i # 0
        THEN /\ timers' = tm
             /\ output' = out
             /\ task' = [task EXCEPT ![c] =
                    [pc |-> "broadcast", op |-> op, gid |-> g, idx |-> i,
                     used |-> used, excl |-> excl, got |-> got,
                     failed |-> failed]]
        ELSE Return(c, op, g, hp, out, tm)

\* GameManager._broadcast_to_game, from its call to its first send, after
\* the output `out` of this step
broadcast_to_game(c, op, g, excl, hp, out, tm) ==
    IF ~Registered(g)
    THEN Return(c, op, g, hp, out, tm)
    ELSE BroadcastLoop(c, op, g, excl, 1, Len(hp[g].players), {}, {}, hp,
                       out, tm)

\* What an event of the broadcast type `type` reports: _start_game builds
\* its game_state_update right after it has set the phase (lines 321-331).
BroadcastPayload(type) == IF type = "game_state_update" THEN "playing" ELSE ""

\* What the completion of the send to player i of game g leaves: the event
\* delivered, or (the exception caught and logged) player.is_connected = False.
SendOutcome(hp, g, i, type) ==
    LET player == hp[g].players[i]
    IN  IF alive[player.websocket]
        THEN [heap |-> hp, out |-> <<Event(player.id, type, g, BroadcastPayload(type))>>,
              got |-> {player.id}, failed |-> {}]
        ELSE [heap |-> [hp EXCEPT ![g].players[i].is_connected = FALSE],
              out |-> <<Log("broadcast_message", "ConnectionClosed")>>,
              got |-> {}, failed |-> {player.id}]

\* The send a broadcast is suspended on completes (line 475), and the loop
\* goes on: the dict iterator is advanced, which raises RuntimeError when
\* the dict has changed size since the loop began.
BroadcastResume(c) ==
    /\ UNCHANGED bot
    /\ task[c].pc = "broadcast"
    /\ LET f == task[c]
           g == f.gid
           o == SendOutcome(heap, g, f.idx, BroadcastType(f.op))
       IN  /\ UNCHANGED <<games, nextGame, player_to_game, alive, msgs>>
           /\ IF Len(o.heap[g].players) # f.used
              THEN Raise(c, f.op, "RuntimeError", o.out, timers)
              ELSE BroadcastLoop(c, f.op, g, f.excl, f.idx + 1, f.used,
                                 f.got \cup o.got, f.failed \cup o.failed,
                                 o.heap, o.out, timers)
           /\ heap' = Collect(o.heap)

\* ------------------------------------------------------------ operations

\* A variant of FirstOpen that finds no game.
FirstOpen_None == None

\* A variant of FirstOpen that does not read the phase.
FirstOpen_AnyPhase ==
    LET open == {i \in 1..Len(games) : Len(heap[games[i]].players) < MAX_PLAYERS}
    IN  IF open = {} THEN None
        ELSE games[CHOOSE i \in open : \A j \in open : i <= j]

\* The first game, in the order of self.games, that takes another player
\* (line 256); None when there is none.
FirstOpen ==
    LET open == {i \in 1..Len(games) :
                    /\ heap[games[i]].phase = "waiting"
                    /\ Len(heap[games[i]].players) < MAX_PLAYERS}
    IN  IF open = {} THEN None
        ELSE games[CHOOSE i \in open : \A j \in open : i <= j]

\* A variant of _start_game that gives the turn to the number of players.
start_game_TurnToCount(hp, g) ==
    [hp EXCEPT ![g].phase = "playing",
               ![g].current_player_index = Len(hp[g].players)]

\* A variant of _start_game that leaves the phase as it is.
start_game_NoPhase(hp, g) == hp

\* GameManager._start_game, up to its broadcast
start_game(hp, g) == [hp EXCEPT ![g].phase = "playing"]

\* A variant of NewGame whose first player gets the color after red.
NewGame_SecondColor(c) ==
    [players |-> <<Player(c, PlayerColor[2])>>, current_player_index |-> 0,
     phase |-> "waiting", last_dice_roll |-> 0]

\* GameState(...) of _find_or_create_game: the game its first player creates
NewGame(c) ==
    [players |-> <<Player(c, "red")>>, current_player_index |-> 0,
     phase |-> "waiting", last_dice_roll |-> 0]

\* GameManager._find_or_create_game
find_or_create_game(c) ==
    LET w == FirstOpen
    IN  IF w # None
        THEN LET color == get_available_color(heap[w])
                 hp1 == [heap EXCEPT ![w].players = Append(@, Player(c, color))]
                 start == Len(hp1[w].players) >= MIN_PLAYERS
                 hp2 == IF start THEN start_game(hp1, w) ELSE hp1
             IN  /\ player_to_game' = [player_to_game EXCEPT ![c] = w]
                 /\ UNCHANGED <<games, nextGame>>
                 /\ IF start
                    THEN broadcast_to_game(c, "join_game", w, None, hp2, <<>>, timers)
                    ELSE Return(c, "join_game", w, hp2, <<>>, timers)
                 /\ heap' = Collect(hp2)
        ELSE LET game_id == nextGame + 1
                 hp == [heap EXCEPT ![game_id] = NewGame(c)]
             IN  /\ nextGame' = game_id
                 /\ games' = Append(games, game_id)
                 /\ player_to_game' = [player_to_game EXCEPT ![c] = game_id]
                 /\ Return(c, "join_game", game_id, hp, <<>>, timers)
                 /\ heap' = Collect(hp)

\* The reconnection test of GameManager.join_game (lines 224-228)
IsReconnect(c) ==
    /\ player_to_game[c] # None
    /\ Registered(player_to_game[c])
    /\ c \in Ids(heap, player_to_game[c])

\* A variant of Reconnect that registers the returning player anew, as
\* _find_or_create_game registers a first-time player.
Reconnect_AsNewPlayer(hp, g, c) ==
    [hp EXCEPT ![g].players = Append(@, Player(c, get_available_color(hp[g])))]

\* The reconnection of GameManager.join_game (lines 230-231)
Reconnect(hp, g, c) ==
    LET i == PlayerIndex(hp, g, c)
    IN  [hp EXCEPT ![g].players[i].websocket = WS(c),
                   ![g].players[i].is_connected = TRUE]

\* GameManager.join_game, with the replies of handle_client_message
join_game(c) ==
    IF IsReconnect(c)
    THEN LET g == player_to_game[c]
         IN  /\ UNCHANGED <<games, nextGame, player_to_game>>
             /\ Return(c, "join_game", g, Reconnect(heap, g, c), <<>>,
                       Rejoined(timers, g))
             /\ heap' = Collect(Reconnect(heap, g, c))
    ELSE find_or_create_game(c)

\* A variant of Roll in which a six ends the game.
Roll_SixFinishes(hp, g, dice_value) ==
    [hp EXCEPT ![g].last_dice_roll = dice_value,
               ![g].phase = IF dice_value = DICE_MAX THEN "finished" ELSE @]

\* What handle_dice_roll writes before its broadcast (lines 351-353)
Roll(hp, g, dice_value) == [hp EXCEPT ![g].last_dice_roll = dice_value]

\* A variant of current_player_id that takes the last key of the dict.
current_player_id_Last(game) == game.players[Len(game.players)].id

\* The player whose turn it is (line 344)
current_player_id(game) == game.players[game.current_player_index + 1].id

\* GameManager.handle_dice_roll
handle_dice_roll(c, g) ==
    IF ~Registered(g)
    THEN Raise(c, "roll_dice", "KeyError", <<>>, timers) /\ heap' = Collect(heap)
    ELSE IF c # current_player_id(heap[g])
    THEN Raise(c, "roll_dice", "Not your turn", <<>>, timers) /\ heap' = Collect(heap)
    ELSE \E dice_value \in 1..DICE_MAX :
            LET hp == Roll(heap, g, dice_value)
            IN  /\ broadcast_to_game(c, "roll_dice", g, None, hp, <<>>, timers)
                /\ heap' = Collect(hp)

\* GameManager.handle_chat_message
handle_chat_message(c, g) ==
    /\ IF ~Registered(g) \/ c \notin Ids(heap, g)
       THEN Raise(c, "chat_message", "KeyError", <<>>, timers)
       ELSE broadcast_to_game(c, "chat_message", g, None, heap, <<>>, timers)
    /\ heap' = Collect(heap)

\* A variant of Disconnect that also puts the game back to waiting.
Disconnect_BackToWaiting(hp, g, c) ==
    LET i == PlayerIndex(hp, g, c)
    IN  [hp EXCEPT ![g].players[i].is_connected = FALSE, ![g].phase = "waiting"]

\* A variant of Disconnect that takes the player out of the game.
Disconnect_Remove(hp, g, c) ==
    [hp EXCEPT ![g].players = SelectSeq(@, LAMBDA p : p.id # c)]

\* What handle_player_disconnect writes before its broadcast (line 417)
Disconnect(hp, g, c) ==
    LET i == PlayerIndex(hp, g, c)
    IN  [hp EXCEPT ![g].players[i].is_connected = FALSE]

\* GameManager.handle_player_disconnect, after the output `out` of this
\* step; op is "leave_game" (the message) or "close" (the finally block of
\* handle_websocket_connection)
handle_player_disconnect(c, op, out) ==
    LET g == player_to_game[c]
    IN  IF g = None
        THEN Raise(c, op, "", out, timers) /\ heap' = Collect(heap)
        ELSE IF ~Registered(g)
        THEN Raise(c, op, "KeyError", out, timers) /\ heap' = Collect(heap)
        ELSE IF c \notin Ids(heap, g)
        THEN Raise(c, op, "", out, timers) /\ heap' = Collect(heap)
        ELSE LET hp == Disconnect(heap, g, c)
             IN  /\ broadcast_to_game(c, op, g, c, hp, out, timers)
                 /\ heap' = Collect(hp)

\* A variant of ShouldCleanup that does not count the connected players
\* again after the sleep.
ShouldCleanup_NoRecount(g) == Registered(g)

\* A variant of ShouldCleanup that is satisfied with one player that is not
\* connected.
ShouldCleanup_AnyDisconnected(g) ==
    Registered(g) /\ connected_players(heap, g) < Len(heap[g].players)

\* The test of _cleanup_empty_game after its sleep (lines 444-448)
ShouldCleanup(g) == Registered(g) /\ connected_players(heap, g) = 0

\* A variant of _cleanup_empty_game that leaves player_to_game as it is.
cleanup_empty_game_KeepEntries(g) ==
    IF ShouldCleanup(g)
    THEN /\ player_to_game' = player_to_game
         /\ games' = Remove(games, g)
         /\ output' = <<CleanupRun(g, "game_cleaned_up")>>
    ELSE /\ UNCHANGED <<player_to_game, games>>
         /\ output' = <<CleanupRun(g, "")>>

\* A variant of _cleanup_empty_game that looks the game up without the
\* test of line 444, so that a game id that is gone raises KeyError.
cleanup_empty_game_NoLookup(g) ==
    IF ~Registered(g)
    THEN /\ UNCHANGED <<player_to_game, games>>
         /\ output' = <<Log("_cleanup_empty_game", "KeyError")>>
    ELSE IF ShouldCleanup(g)
    THEN /\ player_to_game' = [c \in Conns |->
                IF c \in Ids(heap, g) THEN None ELSE player_to_game[c]]
         /\ games' = Remove(games, g)
         /\ output' = <<CleanupRun(g, "game_cleaned_up")>>
    ELSE /\ UNCHANGED <<player_to_game, games>>
         /\ output' = <<CleanupRun(g, "")>>

\* A variant of _cleanup_empty_game that clears player_to_game altogether.
cleanup_empty_game_ClearAll(g) ==
    IF ShouldCleanup(g)
    THEN /\ player_to_game' = [c \in Conns |-> None]
         /\ games' = Remove(games, g)
         /\ output' = <<CleanupRun(g, "game_cleaned_up")>>
    ELSE /\ UNCHANGED <<player_to_game, games>>
         /\ output' = <<CleanupRun(g, "")>>

\* GameManager._cleanup_empty_game, after its sleep
cleanup_empty_game(g) ==
    IF ShouldCleanup(g)
    THEN /\ player_to_game' = [c \in Conns |->
                IF c \in Ids(heap, g) THEN None ELSE player_to_game[c]]
         /\ games' = Remove(games, g)
         /\ output' = <<CleanupRun(g, "game_cleaned_up")>>
    ELSE /\ UNCHANGED <<player_to_game, games>>
         /\ output' = <<CleanupRun(g, "")>>

\* A variant of cleanup_finished_games that does not read the phase.
cleanup_finished_games_AnyPhase(old) ==
    LET games_to_remove == SelectSeq(games, LAMBDA g : g \in old)
        removed == {games_to_remove[k] : k \in 1..Len(games_to_remove)}
    IN  /\ player_to_game' = [c \in Conns |->
                IF \E g \in removed : c \in Ids(heap, g) THEN None
                ELSE player_to_game[c]]
        /\ games' = SelectSeq(games, LAMBDA g : g \notin removed)
        /\ output' = [k \in 1..Len(games_to_remove) |-> SweepRun(games_to_remove[k])]

\* cleanup_finished_games, one round after its sleep; old are the games
\* whose updated_at is more than 86400 seconds before the current time.
cleanup_finished_games(old) ==
    LET games_to_remove ==
            SelectSeq(games, LAMBDA g : heap[g].phase = "finished" /\ g \in old)
        removed == {games_to_remove[k] : k \in 1..Len(games_to_remove)}
    IN  /\ player_to_game' = [c \in Conns |->
                IF \E g \in removed : c \in Ids(heap, g) THEN None
                ELSE player_to_game[c]]
        /\ games' = SelectSeq(games, LAMBDA g : g \notin removed)
        /\ output' = [k \in 1..Len(games_to_remove) |-> SweepRun(games_to_remove[k])]

\* The loop of get_game_stats over the first n games of self.games, from
\* the counters `stats`.
RECURSIVE StatsLoop(_, _)
StatsLoop(stats, n) ==
    IF n = 0 THEN stats
    ELSE LET s == StatsLoop(stats, n - 1)
             game == heap[games[n]]
             t == IF game.phase = "waiting"
                  THEN [s EXCEPT !.waiting_games = @ + 1]
                  ELSE IF game.phase = "playing"
                  THEN [s EXCEPT !.active_games = @ + 1]
                  ELSE [s EXCEPT !.finished_games = @ + 1]
         IN  [t EXCEPT !.total_players = @ + Len(game.players),
                       !.connected_players = @ + connected_players(heap, games[n])]

\* A variant of get_game_stats that does not count the started games.
get_game_stats_NoActive ==
    [StatsLoop([total_games |-> Len(games), waiting_games |-> 0,
                active_games |-> 0, finished_games |-> 0, total_players |-> 0,
                connected_players |-> 0], Len(games))
        EXCEPT !.active_games = 0]

\* GameManager.get_game_stats
get_game_stats ==
    StatsLoop([total_games |-> Len(games), waiting_games |-> 0,
               active_games |-> 0, finished_games |-> 0, total_players |-> 0,
               connected_players |-> 0], Len(games))

\* The record periodic_stats_logger logs
StatsRecord(stats) ==
    [to |-> None, type |-> "periodic_stats", gid |-> None, msg |-> "",
     ctx |-> "periodic_stats_logger", stats |-> stats]

\* --------------------------------------------------------------- actions

\* handle_websocket_connection reads the next message of connection c,
\* within the budget; a message the peer sent before it went away is still
\* read. A connection is "new" until its first message is read; connections
\* (line 611: each a fresh player_id) are numbered in the order of their
\* first messages.
Receives(c) ==
    /\ task[c].pc \in {"new", "idle"}
    /\ IF c = 1 THEN TRUE ELSE task[c - 1].pc # "new"
    /\ msgs < MaxMsgs
    /\ msgs' = msgs + 1

\* A variant of Handled that leaves the loop of the connection handler.
Handled_Done(c, out) ==
    /\ output' = out
    /\ task' = [task EXCEPT ![c] = DoneFrame]
    /\ UNCHANGED <<heap, timers>>

\* The handler of c has handled a message with no operation of the game
\* manager, putting out `out`.
Handled(c, out) ==
    /\ output' = out
    /\ task' = [task EXCEPT ![c] = IdleFrame]
    /\ UNCHANGED <<heap, timers>>

\* join_game message
RecvJoin(c) ==
    /\ UNCHANGED bot
    /\ Receives(c)
    /\ UNCHANGED alive
    /\ join_game(c)

\* roll_dice message; g = None: the payload has no gameId
RecvRoll(c, g) ==
    /\ UNCHANGED bot
    /\ Receives(c)
    /\ UNCHANGED <<games, nextGame, player_to_game, alive>>
    /\ IF g = None THEN Handled(c, <<>>) ELSE handle_dice_roll(c, g)

\* chat_message message; g = None: the payload has no gameId or no message
RecvChat(c, g) ==
    /\ UNCHANGED bot
    /\ Receives(c)
    /\ UNCHANGED <<games, nextGame, player_to_game, alive>>
    /\ IF g = None THEN Handled(c, <<>>) ELSE handle_chat_message(c, g)

\* leave_game message
RecvLeave(c) ==
    /\ UNCHANGED bot
    /\ Receives(c)
    /\ UNCHANGED <<games, nextGame, player_to_game, alive>>
    /\ handle_player_disconnect(c, "leave_game", <<>>)

\* A message that is no JSON (lines 624-635), of an unknown type (lines
\* 579-586), or of type log (no reply). The send of "Invalid JSON format"
\* is made in an except clause: when it raises, the loop of
\* handle_websocket_connection is left and the finally block runs.
RecvOther(c, kind) ==
    /\ UNCHANGED bot
    /\ Receives(c)
    /\ UNCHANGED <<games, nextGame, player_to_game, alive>>
    /\ CASE kind = "invalid" ->
                IF alive[WS(c)]
                THEN Handled(c, <<Log("json_decode", "JSONDecodeError"),
                                  Event(c, "error", None, "Invalid JSON format")>>)
                ELSE handle_player_disconnect(c, "close",
                            <<Log("json_decode", "JSONDecodeError")>>)
         [] kind = "unknown" ->
                Handled(c, Reply(c, <<Event(c, "error", None, "Unknown message type")>>))
         [] kind = "log" -> Handled(c, <<>>)

\* The peer of connection c goes away: every later send to it raises.
PeerClose(c) ==
    /\ UNCHANGED bot
    /\ alive[c]
    /\ task[c].pc # "new"
    /\ alive' = [alive EXCEPT ![c] = FALSE]
    /\ output' = <<>>
    /\ UNCHANGED <<games, heap, nextGame, player_to_game, task, timers, msgs>>

\* `async for message in websocket` ends on the closed connection and the
\* finally block runs handle_player_disconnect.
ConnectionEnd(c) ==
    /\ UNCHANGED bot
    /\ task[c].pc = "idle"
    /\ ~alive[c]
    /\ UNCHANGED <<games, nextGame, player_to_game, alive, msgs>>
    /\ handle_player_disconnect(c, "close", <<>>)

\* The oldest pending clean-up task wakes from its sleep.
CleanupFire ==
    /\ UNCHANGED bot
    /\ timers # <<>>
    /\ cleanup_empty_game(Head(timers).gid)
    /\ timers' = Tail(timers)
    /\ UNCHANGED <<nextGame, alive, task, msgs>>
    /\ heap' = Collect(heap)

\* cleanup_finished_games wakes from its sleep; any registered game may
\* have been left untouched for longer than the retention window.
Sweep ==
    /\ UNCHANGED bot
    /\ \E old \in SUBSET {games[i] : i \in 1..Len(games)} :
            cleanup_finished_games(old)
    /\ UNCHANGED <<nextGame, alive, task, timers, msgs>>
    /\ heap' = Collect(heap)

\* periodic_stats_logger wakes from its sleep and logs the statistics.
StatsLog ==
    /\ UNCHANGED bot
    /\ output' = <<StatsRecord(get_game_stats)>>
    /\ UNCHANGED <<games, heap, nextGame, player_to_game, alive, task, timers, msgs>>

Init ==
    /\ game_invitations = <<>>
    /\ clock = 0
    /\ games = <<>>
    /\ heap = [g \in GameIds |-> NoGame]
    /\ nextGame = 0
    /\ player_to_game = [c \in Conns |-> None]
    /\ alive = [c \in Conns |-> TRUE]
    /\ task = [c \in Conns |-> [IdleFrame EXCEPT !.pc = "new"]]
    /\ timers = <<>>
    /\ msgs = 0
    /\ output = <<>>

Next ==
    \/ \E c \in Conns : RecvJoin(c)
    \/ \E c \in Conns, g \in {None} \cup GameIds : RecvRoll(c, g)
    \/ \E c \in Conns, g \in {None} \cup GameIds : RecvChat(c, g)
    \/ \E c \in Conns : RecvLeave(c)
    \/ \E c \in Conns, kind \in {"invalid", "unknown", "log"} : RecvOther(c, kind)
    \/ \E c \in Conns : BroadcastResume(c)
    \/ \E c \in Conns : PeerClose(c)
    \/ \E c \in Conns : ConnectionEnd(c)
    \/ CleanupFire
    \/ Sweep
    \/ StatsLog

Spec == Init /\ [][Next]_vars

\* cleanup_finished_games as a function of the registry: the registries of
\* up to MaxMsgs games of every phase of GamePhase, each with one or two
\* connected players. (No operation of the server sets the
\* phase finished; the sweep is applied here to registries that hold it.)
SweepInit ==
    \E ids \in SUBSET GameIds :
    \E owner \in [Conns -> ids \cup {None}] :
    \E phase \in [ids -> {GamePhase[k] : k \in 1..Len(GamePhase)}] :
        LET regs == SelectSeq([g \in GameIds |-> g], LAMBDA g : g \in ids)
            members(g) == SelectSeq([c \in Conns |-> c], LAMBDA c : owner[c] = g)
        IN  /\ \A g \in ids : Len(members(g)) \in 1..2
            /\ game_invitations = <<>>
            /\ clock = 0
            /\ games = regs
            /\ heap = [g \in GameIds |->
                    IF g \in ids
                    THEN [players |-> [k \in 1..Len(members(g)) |->
                                Player(members(g)[k], PlayerColor[k])],
                          current_player_index |-> 0,
                          phase |-> phase[g],
                          last_dice_roll |-> 0]
                    ELSE NoGame]
            /\ nextGame = MaxMsgs
            /\ player_to_game = owner
            /\ alive = [c \in Conns |-> TRUE]
            /\ task = [c \in Conns |-> IdleFrame]
            /\ timers = <<>>
            /\ msgs = MaxMsgs
            /\ output = <<>>

SweepSpec == SweepInit /\ [][Sweep]_vars

\* ------------------------------------------------------------------- bot

\* GameInvitation(...) of create_game_invitation: status has its default.
GameInvitation(created_at) ==
    [created_at |-> created_at, expires_at |-> created_at + EXPIRY_HOURS,
     status |-> "pending"]

\* What accept_invitation returned for invitation_id
Accepted(invitation_id, ret) ==
    [to |-> None, type |-> "accept_invitation", gid |-> invitation_id,
     msg |-> IF ret THEN "True" ELSE "False", ctx |-> "bot"]

\* BotGameManager.create_game_invitation
create_game_invitation ==
    /\ game_invitations' = Append(game_invitations, GameInvitation(clock))
    /\ output' = <<>>

\* A variant of accept_invitation that does not read the clock.
accept_invitation_NoExpiry(invitation_id) ==
    IF /\ invitation_id \in 1..Len(game_invitations)
       /\ game_invitations[invitation_id].status = "pending"
    THEN /\ game_invitations' =
                [game_invitations EXCEPT ![invitation_id].status = "accepted"]
         /\ output' = <<Accepted(invitation_id, TRUE)>>
    ELSE /\ UNCHANGED game_invitations
         /\ output' = <<Accepted(invitation_id, FALSE)>>

\* BotGameManager.accept_invitation
accept_invitation(invitation_id) ==
    IF /\ invitation_id \in 1..Len(game_invitations)
       /\ game_invitations[invitation_id].status = "pending"
       /\ clock < game_invitations[invitation_id].expires_at
    THEN /\ game_invitations' =
                [game_invitations EXCEPT ![invitation_id].status = "accepted"]
         /\ output' = <<Accepted(invitation_id, TRUE)>>
    ELSE /\ UNCHANGED game_invitations
         /\ output' = <<Accepted(invitation_id, FALSE)>>

\* BotGameManager.cleanup_expired_invitations
cleanup_expired_invitations ==
    LET current_time == clock
        expired_ids == {i \in 1..Len(game_invitations) :
                            /\ current_time > game_invitations[i].expires_at
                            /\ game_invitations[i].status = "pending"}
    IN  /\ game_invitations' = [i \in 1..Len(game_invitations) |->
                IF i \in expired_ids
                THEN [game_invitations[i] EXCEPT !.status = "expired"]
                ELSE game_invitations[i]]
        /\ output' = <<>>

\* A user asks for an invitation (the invite command).
CreateInvitation ==
    /\ Len(game_invitations) < MaxInvitations
    /\ create_game_invitation
    /\ UNCHANGED <<server, clock>>

\* accept_invitation is called for an id, known to the store or not.
AcceptInvitation(invitation_id) ==
    /\ accept_invitation(invitation_id)
    /\ UNCHANGED <<server, clock>>

\* The periodic task of the bot calls cleanup_expired_invitations.
CleanupExpired ==
    /\ cleanup_expired_invitations
    /\ UNCHANGED <<server, clock>>

\* Time passes.
Tick ==
    /\ clock + TickHours <= MaxClock
    /\ clock' = clock + TickHours
    /\ output' = <<>>
    /\ UNCHANGED <<server, game_invitations>>

BotNext ==
    \/ CreateInvitation
    \/ \E invitation_id \in 1..MaxInvitations : AcceptInvitation(invitation_id)
    \/ CleanupExpired
    \/ Tick

BotSpec == Init /\ [][BotNext]_vars

\* The clean-up tasks are asyncio tasks: each wakes once its sleep is over.
FairSpec == Spec /\ WF_vars(CleanupFire)

\* ------------------------------------------------------------ properties

\* C1: in every state a game has at most four players, and no two players
\* of one game have the same color.
C1_CapacityAndDistinctColors ==
    \A g \in GameIds :
        LET ps == heap[g].players
        IN  /\ Len(ps) <= 4
            /\ \A i, j \in 1..Len(ps) : i # j => ps[i].color # ps[j].color

\* A second player has joined a game and has been given a color.
C1_Witness ==
    \E g \in GameIds :
        /\ Registered(g)
        /\ Len(heap[g].players) >= 2
        /\ heap[g].players[2].color = "green"

\* C2: the phase of a game never moves backward in the order waiting,
\* playing, finished: no step takes a playing game back to waiting or a
\* finished game back to playing or waiting, and a game that has been
\* removed does not come back.
C2_PhaseNeverMovesBackward ==
    [][\A g \in GameIds :
          LET rank(p) == CHOOSE k \in 1..Len(GamePhase) : GamePhase[k] = p
          IN  /\ (heap[g].phase # "none" /\ heap'[g].phase # "none")
                    => rank(heap[g].phase) <= rank(heap'[g].phase)
              /\ (heap[g].phase = "none" /\ g <= nextGame)
                    => heap'[g].phase = "none"]_vars

\* A game that has started is still playing after one of its players has
\* disconnected.
C2_Witness ==
    \E g \in GameIds :
        /\ Registered(g)
        /\ heap[g].phase = "playing"
        /\ connected_players(heap, g) < Len(heap[g].players)

\* C3: a join_game of a connection that is already a player of a registered
\* game returns the id of that game, sets that player's is_connected and
\* websocket, and changes nothing else: the players of the game, their
\* colors and order, current_player_index and the phase are as before, and
\* the connection is a player once, in one game.
C3_ReconnectFrame ==
    [][\A c \in Conns :
          (RecvJoin(c) /\ IsReconnect(c)) =>
             LET g == player_to_game[c]
                 i == CHOOSE k \in 1..Len(heap[g].players) : heap[g].players[k].id = c
             IN  /\ heap'[g] = [heap[g] EXCEPT !.players[i].is_connected = TRUE,
                                               !.players[i].websocket = c]
                 /\ \A h \in GameIds \ {g} : heap'[h] = heap[h]
                 /\ games' = games
                 /\ player_to_game' = player_to_game
                 /\ Cardinality({<<h, k>> \in GameIds \X (1..4) :
                        k <= Len(heap'[h].players) /\ heap'[h].players[k].id = c}) = 1
                 /\ alive[c] => output' = <<Event(c, "game_joined", g, ""),
                                            Event(c, "game_state_update", g,
                                                  heap[g].phase)>>]_vars

\* The only player of a game has just joined it again, after the clean-up
\* task that his leaving created.
C3_Witness ==
    \E c \in Conns, g \in GameIds :
        /\ Len(output) = 2
        /\ output[1] = Event(c, "game_joined", g, "")
        /\ Len(heap[g].players) = 1
        /\ heap[g].players[1].id = c
        /\ heap[g].players[1].is_connected
        /\ \E k \in 1..Len(timers) : timers[k].gid = g /\ timers[k].rejoined

\* C4: a roll_dice for a registered game by a connection that is not the
\* player at current_player_index fails with "Not your turn", reported to
\* the sender; it leaves the games as they were and no dice_rolled event is
\* put out.
C4_NotYourTurn ==
    [][\A c \in Conns, g \in GameIds :
          (/\ RecvRoll(c, g)
           /\ Registered(g)
           /\ heap[g].players[heap[g].current_player_index + 1].id # c) =>
             /\ heap' = heap
             /\ games' = games
             /\ player_to_game' = player_to_game
             /\ timers' = timers
             /\ task'[c].pc = "idle"
             /\ \A k \in 1..Len(output') : output'[k].type # "dice_rolled"
             /\ \E k \in 1..Len(output') :
                    output'[k].type = "log_error" /\ output'[k].msg = "Not your turn"
             /\ alive[c] => \E k \in 1..Len(output') :
                    output'[k] = Event(c, "error", None, "Not your turn")]_vars

\* The second player of a started game has been told it is not his turn.
C4_Witness ==
    \E c \in Conns, g \in GameIds :
        /\ Registered(g)
        /\ heap[g].phase = "playing"
        /\ c \in Ids(heap, g)
        /\ \E k \in 1..Len(output) : output[k] = Event(c, "error", None, "Not your turn")

\* C5: a roll_dice by the player at current_player_index stores a value in
\* 1..6 as last_dice_roll and advances current_player_index by one modulo
\* the number of players.
C5_RollAdvancesTurn ==
    [][\A c \in Conns, g \in GameIds :
          (/\ RecvRoll(c, g)
           /\ Registered(g)
           /\ heap[g].players[heap[g].current_player_index + 1].id = c) =>
             /\ heap'[g].last_dice_roll \in 1..6
             /\ heap'[g].current_player_index =
                    (heap[g].current_player_index + 1) % Len(heap[g].players)]_vars

\* C6: a roll_dice for a game whose phase is not playing fails with no
\* effect: the games stay as they were, no broadcast is begun and no
\* dice_rolled event is put out.
C6_RollOnlyWhilePlaying ==
    [][\A c \in Conns, g \in GameIds :
          (/\ RecvRoll(c, g)
           /\ Registered(g)
           /\ heap[g].phase # "playing") =>
             /\ heap' = heap
             /\ task'[c].pc = "idle"
             /\ \A k \in 1..Len(output') : output'[k].type # "dice_rolled"]_vars

C8_BroadcastNeverRaises ==
    \A k \in 1..Len(output) :
        ~(output[k].type = "log_error" /\ output[k].msg = "RuntimeError")

\* C9: a clean-up task of a game to which a player has reconnected since
\* the task was created removes nothing when it wakes, whatever has
\* happened between the reconnection and the waking.
C9_RejoinVoidsCleanup ==
    [][(timers # <<>> /\ CleanupFire /\ Head(timers).rejoined) =>
          /\ games' = games
          /\ player_to_game' = player_to_game]_vars

\* C10: (1) when a handle_player_disconnect ends and leaves its game with
\* no connected player, a clean-up task for that game is pending; (2) a
\* registered game with no connected player and a pending clean-up task is
\* eventually removed from the registry, with the entries of its players,
\* unless a player connects to it again; (3) a clean-up task that wakes
\* while a player of its game is connected removes nothing and leaves the
\* game, its players' colors and current_player_index as they were.
C10_EmptyGameReclaimed ==
    /\ [][\A c \in Conns :
             (/\ \/ RecvLeave(c)
                 \/ ConnectionEnd(c)
                 \/ (task[c].pc = "broadcast" /\ task[c].op \in {"leave_game", "close"}
                        /\ BroadcastResume(c))
              /\ task'[c].pc # "broadcast"
              /\ player_to_game[c] # None
              /\ Registered(player_to_game[c])
              /\ c \in Ids(heap, player_to_game[c])
              /\ connected_players(heap', player_to_game[c]) = 0) =>
                (timers' # <<>> /\ timers'[Len(timers')].gid = player_to_game[c])]_vars
    /\ \A g \in GameIds :
          (/\ Registered(g)
           /\ connected_players(heap, g) = 0
           /\ \E k \in 1..Len(timers) : timers[k].gid = g)
          ~> (\/ ~Registered(g) /\ \A c \in Conns : player_to_game[c] # g
              \/ connected_players(heap, g) > 0)
    /\ [][(/\ timers # <<>>
           /\ CleanupFire
           /\ connected_players(heap, Head(timers).gid) > 0) =>
             /\ games' = games
             /\ player_to_game' = player_to_game
             /\ heap' = heap]_vars

\* A game whose players had all disconnected has been removed, with the
\* entry of its player, while a game created after it stays.
C10_Witness ==
    /\ nextGame >= 1
    /\ ~Registered(1)
    /\ \A c \in Conns : player_to_game[c] # 1
    /\ timers = <<>>

\* C11: whenever a registered game is left with no connected player, by a
\* handle_player_disconnect or by a send of a broadcast that raised and
\* marked the last connected player, a clean-up task is pending for it.
C11_ZeroConnectedHasCleanup ==
    \A g \in GameIds :
        (Registered(g) /\ connected_players(heap, g) = 0) =>
            \E k \in 1..Len(timers) : timers[k].gid = g

\* C12: when a player of a registered game disconnects (leave_game, or the
\* end of his connection) while another player of the game is connected
\* and reachable, his is_connected becomes false, the broadcast that
\* follows excludes him and delivers player_disconnected to the others it
\* reaches, nothing is sent to him, and no clean-up task is created while a
\* player of the game is connected.
C12_DisconnectWithOthersConnected ==
    [][\A c \in Conns :
          /\ (/\ \/ RecvLeave(c)
                 \/ ConnectionEnd(c)
                 \/ (~alive[c] /\ RecvOther(c, "invalid"))
              /\ player_to_game[c] # None
              /\ Registered(player_to_game[c])
              /\ \E i, j \in 1..Len(heap[player_to_game[c]].players) :
                    LET ps == heap[player_to_game[c]].players
                    IN  /\ ps[i].id = c
                        /\ ps[j].id # c /\ ps[j].is_connected /\ alive[ps[j].websocket]) =>
                LET g == player_to_game[c]
                    ps == heap'[g].players
                IN  /\ \A i \in 1..Len(ps) : ps[i].id = c => ~ps[i].is_connected
                    /\ timers' = timers
                    /\ task'[c].pc = "broadcast"
                    /\ task'[c].gid = g
                    /\ task'[c].excl = c
                    /\ ps[task'[c].idx].id # c
                    /\ \A k \in 1..Len(output') : output'[k].to # c
          /\ (/\ task[c].pc = "broadcast"
              /\ task[c].op \in {"leave_game", "close"}
              /\ BroadcastResume(c)) =>
                LET g == task[c].gid
                    r == heap[g].players[task[c].idx]
                IN  /\ r.id # c
                    /\ \A k \in 1..Len(output') : output'[k].to # c
                    /\ alive[r.websocket] =>
                          \E k \in 1..Len(output') :
                              output'[k] = Event(r.id, "player_disconnected", g, "")
                    /\ (\E j \in 1..Len(heap'[g].players) : heap'[g].players[j].is_connected)
                          => timers' = timers]_vars

\* The other player of a game has been told of a disconnection, he is
\* still connected, and no clean-up task has been created.
C12_Witness ==
    \E b \in Conns, g \in GameIds :
        /\ output = <<Event(b, "player_disconnected", g, "")>>
        /\ timers = <<>>
        /\ Registered(g)
        /\ \E i, j \in 1..Len(heap[g].players) :
              /\ heap[g].players[i].id = b /\ heap[g].players[i].is_connected
              /\ ~heap[g].players[j].is_connected

\* C13: at any time at most one clean-up task is pending for a game id:
\* repeated disconnections and cycles of reconnection and disconnection
\* never leave two pending tasks for the same game.
C13_OneCleanupPerGame ==
    \A k1, k2 \in 1..Len(timers) :
        k1 # k2 => timers[k1].gid # timers[k2].gid

\* C14: a join_game that is no reconnection puts the connection into the
\* first game, in the order of the registry, whose phase is waiting and
\* that has fewer than four players, and creates no game then; when there
\* is no such game it registers one new game, last in the registry, with
\* phase waiting, current_player_index 0 and the connection as its only
\* player, colored red. A game whose phase is not waiting gets no player.
C14_FirstFitOrNewGame ==
    [][\A c \in Conns :
          (RecvJoin(c) /\ ~IsReconnect(c)) =>
             LET open == {i \in 1..Len(games) :
                             /\ heap[games[i]].phase = "waiting"
                             /\ Len(heap[games[i]].players) < 4}
             IN  /\ \A g \in GameIds :
                       (Registered(g) /\ heap[g].phase # "waiting")
                          => heap'[g].players = heap[g].players
                 /\ IF open # {}
                    THEN LET w == games[CHOOSE i \in open : \A j \in open : i <= j]
                         IN  /\ games' = games
                             /\ player_to_game'[c] = w
                             /\ Len(heap'[w].players) = Len(heap[w].players) + 1
                             /\ heap'[w].players[Len(heap'[w].players)].id = c
                             /\ \A g \in GameIds \ {w} : heap'[g] = heap[g]
                    ELSE /\ Len(games') = Len(games) + 1
                         /\ SubSeq(games', 1, Len(games)) = games
                         /\ LET n == games'[Len(games')]
                            IN  /\ ~Registered(n)
                                /\ player_to_game'[c] = n
                                /\ heap'[n] =
                                     [players |-> <<[id |-> c, color |-> "red",
                                                     websocket |-> c,
                                                     is_connected |-> TRUE]>>,
                                      current_player_index |-> 0,
                                      phase |-> "waiting",
                                      last_dice_roll |-> 0]
                                /\ \A g \in GameIds \ {n} : heap'[g] = heap[g]]_vars

\* A third connection has found the only game playing and has been given a
\* game of its own, second in the registry.
C14_Witness ==
    /\ Len(games) = 2
    /\ heap[games[1]].phase = "playing"
    /\ Len(heap[games[1]].players) = 2
    /\ heap[games[2]].phase = "waiting"
    /\ Len(heap[games[2]].players) = 1
    /\ heap[games[2]].players[1].color = "red"

\* C15, as the claim states it: when the only registered game has two
\* players and is playing, the join_game of a connection that is in no game
\* makes that connection the third player of the game, with a color of its
\* own; the game stays playing and no second game is created.
C15_ThirdJoinsStartedGame ==
    [][\A c \in Conns :
          (/\ RecvJoin(c)
           /\ player_to_game[c] = None
           /\ Len(games) = 1
           /\ Len(heap[games[1]].players) = 2
           /\ heap[games[1]].phase = "playing") =>
             LET ps == heap'[games[1]].players
             IN  /\ games' = games
                 /\ Len(ps) = 3
                 /\ ps[3].id = c
                 /\ ps[3].color \notin {ps[1].color, ps[2].color}
                 /\ heap'[games[1]].phase = "playing"]_vars

\* C15, as the code has it: when the only registered game has two players
\* and is playing, the join_game of a connection that is in no game leaves
\* that game as it is, with its two players, and creates a second game,
\* waiting, with the connection as its only player, colored red; the
\* connection is told so when its transport is open.
C15_ThirdGetsNewGame ==
    [][\A c \in Conns :
          (/\ RecvJoin(c)
           /\ player_to_game[c] = None
           /\ Len(games) = 1
           /\ Len(heap[games[1]].players) = 2
           /\ heap[games[1]].phase = "playing") =>
             /\ Len(games') = 2
             /\ games'[1] = games[1]
             /\ heap'[games[1]] = heap[games[1]]
             /\ player_to_game'[c] = games'[2]
             /\ heap'[games'[2]].phase = "waiting"
             /\ Len(heap'[games'[2]].players) = 1
             /\ heap'[games'[2]].players[1].id = c
             /\ heap'[games'[2]].players[1].color = "red"
             /\ alive[c] => \E k \in 1..Len(output') :
                    output'[k] = Event(c, "game_joined", games'[2], "")]_vars

\* The third connection has just been told it has joined the second game,
\* while the first game plays on with its two players.
C15_Witness ==
    \E c \in Conns :
        /\ Len(games) = 2
        /\ Len(output) = 2
        /\ output[1] = Event(c, "game_joined", games[2], "")
        /\ heap[games[2]].players[1].id = c
        /\ player_to_game[c] = games[2]
        /\ heap[games[1]].phase = "playing"
        /\ Len(heap[games[1]].players) = 2
        /\ c \notin Ids(heap, games[1])

\* C16: the join_game that gives a waiting game its second player sets the
\* phase of the game to playing in the step that adds the player, before
\* anything is sent; the broadcast that follows goes through the players in
\* order, the earlier player first (if he is connected) and the joiner
\* last, and each of its sends on an open transport delivers a
\* game_state_update that reports the phase playing.
C16_StartOnSecondPlayer ==
    [][\A c \in Conns :
          /\ (/\ RecvJoin(c)
              /\ ~IsReconnect(c)
              /\ \E i \in 1..Len(games) :
                    /\ heap[games[i]].phase = "waiting"
                    /\ Len(heap[games[i]].players) = 1) =>
                LET w == player_to_game'[c]
                    ps == heap'[w].players
                IN  /\ heap[w].phase = "waiting"
                    /\ heap'[w].phase = "playing"
                    /\ Len(ps) = 2
                    /\ ps[1] = heap[w].players[1]
                    /\ ps[2].id = c /\ ps[2].is_connected
                    /\ output' = <<>>
                    /\ task'[c].pc = "broadcast"
                    /\ task'[c].op = "join_game"
                    /\ task'[c].gid = w
                    /\ task'[c].idx = IF ps[1].is_connected THEN 1 ELSE 2
          /\ (/\ task[c].pc = "broadcast"
              /\ task[c].op = "join_game"
              /\ BroadcastResume(c)) =>
                LET g == task[c].gid
                    ps == heap[g].players
                    r == ps[task[c].idx]
                IN  /\ heap[g].phase = "playing"
                    /\ alive[r.websocket] =>
                          \E k \in 1..Len(output') :
                              output'[k] = Event(r.id, "game_state_update", g, "playing")
                    /\ (task[c].idx = 1 /\ ps[2].is_connected) =>
                          (task'[c].pc = "broadcast" /\ task'[c].idx = 2)
                    /\ task'[c].pc # "broadcast" =>
                          (r.id = c \/ ~ps[2].is_connected)]_vars

\* The earlier player of a game that has just started has been sent the
\* update, and the broadcast now sends to the joiner.
C16_Witness ==
    \E c \in Conns :
        LET f == task[c]
        IN  /\ f.pc = "broadcast"
            /\ f.op = "join_game"
            /\ f.idx = 2
            /\ heap[f.gid].phase = "playing"
            /\ heap[f.gid].players[2].id = c
            /\ f.got = {heap[f.gid].players[1].id}

\* C17: a player added to an existing game gets the first color, in the
\* order red, green, blue, yellow, that no player of the game has; a free
\* color always exists then, so the fallback to red is never taken.
C17_LowestFreeColor ==
    [][\A c \in Conns :
          (/\ RecvJoin(c)
           /\ ~IsReconnect(c)
           /\ player_to_game'[c] # None
           /\ Registered(player_to_game'[c])) =>
             LET w == player_to_game'[c]
                 order == <<"red", "green", "blue", "yellow">>
                 used == {heap[w].players[i].color : i \in 1..Len(heap[w].players)}
                 free == {k \in 1..4 : order[k] \notin used}
                 new == heap'[w].players[Len(heap'[w].players)]
             IN  /\ free # {}
                 /\ new.id = c
                 /\ \E k \in free : new.color = order[k] /\ \A j \in free : k <= j]_vars

\* The joiner of an existing game, whose first player is red, has been
\* given green and is being sent the update of the start.
C17_Witness ==
    \E c \in Conns :
        LET f == task[c]
        IN  /\ f.pc = "broadcast"
            /\ f.op = "join_game"
            /\ heap[f.gid].players[1].color = "red"
            /\ heap[f.gid].players[2].id = c
            /\ heap[f.gid].players[2].color = "green"

\* C18: in every state player_to_game maps a connection to a game id if
\* and only if that game is registered and the connection is one of its
\* players; so a connection is a player of at most one registered game and
\* no entry names a game that has been removed.
C18_RegistriesConsistent ==
    \A c \in Conns :
        /\ \A g \in GameIds :
              player_to_game[c] = g <=>
                 (Registered(g) /\ \E i \in 1..Len(heap[g].players) :
                                       heap[g].players[i].id = c)
        /\ player_to_game[c] \in GameIds \cup {None}
        /\ Cardinality({g \in GameIds :
              Registered(g) /\ \E i \in 1..Len(heap[g].players) :
                                   heap[g].players[i].id = c}) <= 1

\* The first game has been removed with the entry of the connection that
\* created it, and another connection is the player of the second game.
C18_Witness ==
    \E a, b \in Conns :
        /\ a # b
        /\ msgs = 2 /\ nextGame = 2
        /\ task[a].pc # "new"
        /\ player_to_game[a] = None
        /\ ~Registered(1)
        /\ Registered(2)
        /\ player_to_game[b] = 2

\* C19: join_game is total: whenever the handling of a join_game message
\* ends, also after a broadcast of the start during which sends raised or
\* clean-up tasks woke, the game id it returned is registered, the
\* connection is a player of that game, player_to_game names that game for
\* it, and no exception has left the look-up of the game.
C19_JoinIsTotal ==
    [][\A c \in Conns :
          (/\ \/ RecvJoin(c)
              \/ (task[c].pc = "broadcast" /\ task[c].op = "join_game"
                     /\ BroadcastResume(c))
           /\ task'[c].pc = "idle") =>
             LET g == player_to_game'[c]
             IN  /\ g # None
                 /\ \E i \in 1..Len(games') : games'[i] = g
                 /\ \E i \in 1..Len(heap'[g].players) : heap'[g].players[i].id = c
                 /\ \A k \in 1..Len(output') : output'[k].msg # "KeyError"
                 /\ alive[c] => \E k \in 1..Len(output') :
                        output'[k] = Event(c, "game_joined", g, "")]_vars

\* C20: in every state a game whose phase is playing has
\* 0 <= current_player_index < number of its players, so the player at
\* current_player_index exists.
C20_TurnIndexInRange ==
    \A g \in GameIds :
        heap[g].phase = "playing" =>
            /\ 0 <= heap[g].current_player_index
            /\ heap[g].current_player_index < Len(heap[g].players)

\* The player at current_player_index of a playing game of two players
\* has rolled, and the roll is being broadcast.
C20_Witness ==
    \E c \in Conns :
        LET f == task[c]
        IN  /\ f.pc = "broadcast"
            /\ f.op = "roll_dice"
            /\ f.used = 2
            /\ heap[f.gid].phase = "playing"
            /\ heap[f.gid].players[heap[f.gid].current_player_index + 1].id = c
            /\ heap[f.gid].last_dice_roll > 0

\* C21: a clean-up task that wakes for a game id that is no longer
\* registered does nothing: games, player_to_game and the game objects are
\* as before, among them the entries of connections that are players of
\* other games, and nothing is raised.
C21_CleanupIdempotent ==
    [][(/\ timers # <<>>
        /\ CleanupFire
        /\ ~Registered(Head(timers).gid)) =>
          /\ games' = games
          /\ player_to_game' = player_to_game
          /\ heap' = heap
          /\ \A k \in 1..Len(output') : output'[k].type # "log_error"]_vars

\* The second clean-up task of a removed game has just run and has done
\* nothing, while another connection is the player of a later game.
C21_Witness ==
    \E g \in GameIds, b \in Conns :
        /\ output = <<CleanupRun(g, "")>>
        /\ ~Registered(g)
        /\ g <= nextGame
        /\ player_to_game[b] # None
        /\ Registered(player_to_game[b])
        /\ b \in Ids(heap, player_to_game[b])


\* C22: a round of the periodic sweep removes exactly the registered games
\* whose phase is finished and whose last update is older than the retention
\* window: each leaves the registry and every one of its players leaves
\* player_to_game; every other registered game (waiting, playing, or
\* finished within the window) stays registered with its object and its
\* players' entries unchanged.
C22_SweepRemovesStaleFinished ==
    [][\A old \in SUBSET GameIds :
        (cleanup_finished_games(old) /\ heap' = Collect(heap)) =>
            \A g \in GameIds : Registered(g) =>
                IF heap[g].phase = "finished" /\ g \in old
                THEN /\ \A i \in 1..Len(games') : games'[i] # g
                     /\ \A c \in Ids(heap, g) : player_to_game'[c] = None
                ELSE /\ \E i \in 1..Len(games') : games'[i] = g
                     /\ heap'[g] = heap[g]
                     /\ \A c \in Ids(heap, g) :
                            player_to_game'[c] = player_to_game[c]]_vars

\* A sweep has removed one game while a finished game (within the window)
\* and an unfinished game are still registered.
C22_Witness ==
    \E g \in GameIds, h \in GameIds, k \in GameIds :
        /\ output = <<SweepRun(g)>>
        /\ ~Registered(g)
        /\ Registered(h) /\ heap[h].phase = "finished"
        /\ Registered(k) /\ heap[k].phase # "finished"
        /\ \E c \in Conns : player_to_game[c] = None


\* C23: no game ever has the phase finished, so a round of the periodic
\* sweep changes neither games nor player_to_game nor any game object; a
\* game leaves the registry only in the step of a clean-up task that wakes
\* for it and finds none of its players connected.
C23_NoFinishedGame ==
    /\ [](\A g \in GameIds : heap[g].phase # "finished")
    /\ [][Sweep => /\ games' = games
                   /\ player_to_game' = player_to_game
                   /\ heap' = heap]_vars
    /\ [][\A g \in GameIds :
            (Registered(g) /\ \A i \in 1..Len(games') : games'[i] # g) =>
                /\ timers # <<>>
                /\ Head(timers).gid = g
                /\ timers' = Tail(timers)
                /\ connected_players(heap, g) = 0
                /\ output' = <<CleanupRun(g, "game_cleaned_up")>>]_vars

\* A clean-up task has removed a game whose only player had left, while a
\* started game stays registered.
C23_Witness ==
    \E g \in GameIds, h \in GameIds :
        /\ output = <<CleanupRun(g, "game_cleaned_up")>>
        /\ ~Registered(g)
        /\ Registered(h)
        /\ heap[h].phase = "playing"
        /\ Len(heap[h].players) = MIN_PLAYERS


\* C24: a message of an unknown type, read on a connection whose transport
\* is open, puts out exactly one error event, sent to the sender; games,
\* player_to_game and every game object are unchanged, the transport stays
\* open and the handler is back at its receive loop, where the next message
\* of the connection is read.
C24_UnknownTypeGetsError ==
    [][\A c \in Conns :
        (RecvOther(c, "unknown") /\ alive[WS(c)]) =>
            /\ output' = <<Event(c, "error", None, "Unknown message type")>>
            /\ games' = games
            /\ player_to_game' = player_to_game
            /\ heap' = heap
            /\ alive' = alive
            /\ task'[c].pc = "idle"
            /\ (msgs' < MaxMsgs => (ENABLED RecvLeave(c))')]_vars

\* A player of a registered game has sent a message of an unknown type and
\* got the error event.
C24_Witness ==
    \E c \in Conns :
        /\ output = <<Event(c, "error", None, "Unknown message type")>>
        /\ task[c].pc = "idle"
        /\ alive[WS(c)]
        /\ player_to_game[c] # None
        /\ Registered(player_to_game[c])
        /\ msgs < MaxMsgs


\* C25: a message that is no JSON, a roll_dice without gameId, or a
\* chat_message without gameId or message, read on a connection whose
\* transport is open, puts out an error event to the sender and changes
\* neither games nor player_to_game nor any game object, and the handler is
\* back at its receive loop with the transport open.
C25_MalformedGetsError ==
    [][\A c \in Conns :
        (/\ alive[WS(c)]
         /\ \/ RecvOther(c, "invalid")
            \/ RecvRoll(c, None)
            \/ RecvChat(c, None)) =>
            /\ \E k \in 1..Len(output') :
                    output'[k].type = "error" /\ output'[k].to = c
            /\ games' = games
            /\ player_to_game' = player_to_game
            /\ heap' = heap
            /\ alive' = alive
            /\ task'[c].pc = "idle"]_vars


\* C26: a roll_dice or chat_message that names a game id not in games, or
\* a chat_message from a connection that is no player of the named game,
\* read on a connection whose transport is open, puts out an error event to
\* the sender and no event to anyone else, starts no broadcast, changes
\* neither games nor player_to_game nor any game object, and leaves the
\* handler at its receive loop with the transport open.
C26_BadReferenceGetsError ==
    [][\A c \in Conns, g \in GameIds :
        (/\ alive[WS(c)]
         /\ \/ RecvRoll(c, g) /\ ~Registered(g)
            \/ RecvChat(c, g) /\ (~Registered(g) \/ c \notin Ids(heap, g))) =>
            /\ \E k \in 1..Len(output') :
                    output'[k].type = "error" /\ output'[k].to = c
            /\ \A k \in 1..Len(output') : output'[k].to \in {c, None}
            /\ games' = games
            /\ player_to_game' = player_to_game
            /\ heap' = heap
            /\ alive' = alive
            /\ task'[c].pc = "idle"]_vars

\* C27: a chat_message of a player of a registered game is taken whatever
\* the phase of the game and whoever's turn it is: the step logs no error
\* and sends no error event, changes no game object, and starts a broadcast
\* of chat_message at the first connected player of the game, the sender
\* not excluded. Each send of that broadcast delivers a chat_message event
\* of the game to its recipient when the recipient's transport is open,
\* leaves current_player_index, last_dice_roll, phase and the players of
\* the game with their colors as they were, and no exception leaves the
\* broadcast to be logged by handle_chat_message.
C27_ChatSucceeds ==
    [][\A c \in Conns :
          /\ \A g \in GameIds :
                (RecvChat(c, g) /\ Registered(g) /\ c \in Ids(heap, g)) =>
                    LET ps == heap[g].players
                        to == {j \in 1..Len(ps) : ps[j].is_connected}
                    IN  /\ \A k \in 1..Len(output') :
                                output'[k].type \notin {"error", "log_error"}
                        /\ heap' = heap
                        /\ games' = games
                        /\ player_to_game' = player_to_game
                        /\ IF to = {} THEN task'[c].pc = "idle"
                           ELSE /\ task'[c].pc = "broadcast"
                                /\ task'[c].op = "chat_message"
                                /\ task'[c].gid = g
                                /\ task'[c].excl = None
                                /\ task'[c].idx \in to
                                /\ \A j \in to : task'[c].idx <= j
          /\ (/\ task[c].pc = "broadcast"
              /\ task[c].op = "chat_message"
              /\ BroadcastResume(c)) =>
                    LET g == task[c].gid
                        r == heap[g].players[task[c].idx]
                    IN  /\ alive[r.websocket] =>
                              \E k \in 1..Len(output') :
                                  output'[k] = Event(r.id, "chat_message", g, "")
                        /\ \A k \in 1..Len(output') :
                              output'[k] # Log("handle_chat_message", "RuntimeError")
                        /\ \/ heap'[g] = NoGame /\ ~Registered(g)
                           \/ /\ heap'[g].current_player_index = heap[g].current_player_index
                              /\ heap'[g].last_dice_roll = heap[g].last_dice_roll
                              /\ heap'[g].phase = heap[g].phase
                              /\ Len(heap'[g].players) = Len(heap[g].players)
                              /\ \A j \in 1..Len(heap[g].players) :
                                    /\ heap'[g].players[j].id = heap[g].players[j].id
                                    /\ heap'[g].players[j].color = heap[g].players[j].color]_vars


\* C28: a player leaves a game object only together with the object, when
\* the game has left the registry: in every step, a game object that is
\* still there keeps its players in their order, each with its id and its
\* color, and keeps current_player_index; players are only appended. The
\* first step of a disconnect (leave_game, or the end of the connection)
\* changes nothing but the is_connected of the leaving player, and a send
\* of a broadcast that raises changes nothing but the is_connected of its
\* recipient.
C28_PlayersOnlyGrow ==
    [][/\ \A g \in GameIds :
            heap[g] # NoGame =>
                \/ heap'[g] = NoGame /\ \A i \in 1..Len(games') : games'[i] # g
                \/ /\ Len(heap'[g].players) >= Len(heap[g].players)
                   /\ heap'[g].current_player_index = heap[g].current_player_index
                   /\ \A j \in 1..Len(heap[g].players) :
                        /\ heap'[g].players[j].id = heap[g].players[j].id
                        /\ heap'[g].players[j].color = heap[g].players[j].color
       /\ \A c \in Conns :
            LET g == player_to_game[c]
            IN  /\ (/\ RecvLeave(c) \/ ConnectionEnd(c)
                    /\ g # None
                    /\ Registered(g)
                    /\ c \in Ids(heap, g)) =>
                        /\ heap' = [heap EXCEPT
                              ![g].players[PlayerIndex(heap, g, c)].is_connected = FALSE]
                        /\ games' = games
                        /\ player_to_game' = player_to_game
                /\ (/\ task[c].pc = "broadcast"
                    /\ BroadcastResume(c)
                    /\ ~alive[heap[task[c].gid].players[task[c].idx].websocket]) =>
                        \/ heap'[task[c].gid] = NoGame
                        \/ heap' = [heap EXCEPT
                              ![task[c].gid].players[task[c].idx].is_connected = FALSE]]_vars

\* The first player of a started game has left: the second player has got
\* player_disconnected, and the one that left is still the red first
\* player of the game, not connected.
C28_Witness ==
    \E g \in GameIds :
        /\ Registered(g)
        /\ Len(heap[g].players) = MIN_PLAYERS
        /\ ~heap[g].players[1].is_connected
        /\ heap[g].players[1].color = "red"
        /\ heap[g].players[2].is_connected
        /\ output = <<Event(heap[g].players[2].id, "player_disconnected", g, "")>>


\* C29: logging the statistics changes neither games nor player_to_game
\* nor any game object; and in every state the statistics are consistent:
\* the waiting, active and finished counts add up to the number of games,
\* total_players is the number of players over all registered games, and
\* connected_players is the number of those that are connected, at most
\* total_players.
C29_StatsConsistent ==
    /\ [][StatsLog => /\ games' = games
                      /\ player_to_game' = player_to_game
                      /\ heap' = heap
                      /\ output'[1].stats = get_game_stats]_vars
    /\ [](LET stats == get_game_stats
              seats == {<<i, j>> \in (1..Len(games)) \X (1..MAX_PLAYERS) :
                            j <= Len(heap[games[i]].players)}
          IN  /\ stats.total_games = Len(games)
              /\ stats.waiting_games + stats.active_games + stats.finished_games
                    = stats.total_games
              /\ stats.waiting_games = Cardinality({i \in 1..Len(games) :
                                            heap[games[i]].phase = "waiting"})
              /\ stats.total_players = Cardinality(seats)
              /\ stats.connected_players = Cardinality({s \in seats :
                        heap[games[s[1]]].players[s[2]].is_connected})
              /\ stats.connected_players <= stats.total_players)

\* The statistics logged for a started game with one of its two players
\* connected and a waiting game of one player.
C29_Witness ==
    /\ Len(output) = 1
    /\ output[1].type = "periodic_stats"
    /\ output[1].stats = [total_games |-> 2, waiting_games |-> 1,
                          active_games |-> 1, finished_games |-> 0,
                          total_players |-> 3, connected_players |-> 2]


\* C30: the step that ends the handling of a join_game message of c, first
\* join or reconnection, with the transport of c open, sends c a
\* game_joined event with the id of the game c has joined: that game is
\* registered, it is the player_to_game value of c, and c is one of its
\* players, with a color no other player of the game has; the event is
\* followed by the game_state_update for c with the phase of the game. The
\* step that reads the join_game message starts a broadcast, of
\* game_state_update, exactly when the join changes the phase of a game; a
\* join that changes no phase delivers no event to anyone but the joiner.
C30_JoinedEvent ==
    [][\A c \in Conns :
          /\ (/\ alive[WS(c)]
              /\ task'[c].pc = "idle"
              /\ \/ RecvJoin(c)
                 \/ /\ task[c].pc = "broadcast"
                    /\ task[c].op = "join_game"
                    /\ BroadcastResume(c)) =>
                LET g == player_to_game'[c]
                IN  /\ g # None
                    /\ \E i \in 1..Len(games') : games'[i] = g
                    /\ c \in Ids(heap', g)
                    /\ LET ps == heap'[g].players
                           i == PlayerIndex(heap', g, c)
                       IN  /\ \E k \in 1..Len(PlayerColor) : ps[i].color = PlayerColor[k]
                           /\ \A j \in 1..Len(ps) : j # i => ps[j].color # ps[i].color
                    /\ \E k \in 1..(Len(output') - 1) :
                          /\ output'[k] = Event(c, "game_joined", g, "")
                          /\ output'[k + 1] =
                                Event(c, "game_state_update", g, heap'[g].phase)
                          /\ k + 1 = Len(output')
          /\ RecvJoin(c) =>
                LET changed == {g \in GameIds : heap'[g].phase # heap[g].phase
                                                /\ heap[g] # NoGame}
                IN  /\ task'[c].pc = "broadcast" <=> changed # {}
                    /\ task'[c].pc = "broadcast" =>
                          /\ task'[c].op = "join_game"
                          /\ task'[c].gid \in changed
                          /\ BroadcastType(task'[c].op) = "game_state_update"
                    /\ changed = {} =>
                          \A k \in 1..Len(output') : output'[k].to \in {c, None}]_vars

\* The join of the second player of a game has ended: the broadcast of the
\* start has delivered game_state_update to the joiner, and the joiner has
\* then got game_joined and its own game_state_update.
C30_Witness ==
    \E c \in Conns, g \in GameIds :
        /\ output = <<Event(c, "game_state_update", g, "playing"),
                      Event(c, "game_joined", g, ""),
                      Event(c, "game_state_update", g, "playing")>>
        /\ Registered(g)
        /\ Len(heap[g].players) = MIN_PLAYERS
        /\ heap[g].players[2].id = c
        /\ heap[g].players[2].color = PlayerColor[2]


\* C31: a game with a connected player is in the registry after every
\* step, whichever it is; a clean-up task that wakes for such a game leaves
\* games, player_to_game and the game object as they are. The test and the
\* removal are one step: the step that takes a game out of games is the
\* waking of a clean-up task for it that finds no player connected, and it
\* is the same step that clears the player_to_game entries of its players;
\* no other step clears the entry of a player of a registered game.
C31_CleanupChecksAtWake ==
    [][\A g \in GameIds :
          /\ (Registered(g) /\ connected_players(heap, g) >= 1) =>
                /\ \E i \in 1..Len(games') : games'[i] = g
                /\ \A c \in Ids(heap, g) :
                        player_to_game[c] = g => player_to_game'[c] = g
          /\ (/\ timers # <<>>
              /\ Head(timers).gid = g
              /\ CleanupFire
              /\ Registered(g)
              /\ connected_players(heap, g) >= 1) =>
                /\ games' = games
                /\ player_to_game' = player_to_game
                /\ heap'[g] = heap[g]
          /\ (Registered(g) /\ \A i \in 1..Len(games') : games'[i] # g) =>
                /\ connected_players(heap, g) = 0
                /\ CleanupFire
                /\ \A c \in Ids(heap, g) : player_to_game'[c] = None
          /\ (/\ Registered(g)
              /\ \E c \in Ids(heap, g) :
                    player_to_game[c] = g /\ player_to_game'[c] # g) =>
                \A i \in 1..Len(games') : games'[i] # g]_vars

\* A clean-up task has woken for a game whose player had connected again,
\* and has left the game registered.
C31_Witness ==
    \E g \in GameIds :
        /\ output = <<CleanupRun(g, "")>>
        /\ Registered(g)
        /\ connected_players(heap, g) >= 1
        /\ \A c \in Ids(heap, g) : player_to_game[c] = g


\* C32: a step that works on game t (the game a join_game enters or
\* creates, the game a roll_dice or chat_message names, the game of the
\* connection that leaves or ends, the game of the broadcast whose send
\* completes, the game a clean-up task wakes for) leaves every other game
\* as it is: its object (players, is_connected, phase,
\* current_player_index, last_dice_roll), its place in the registry, and
\* the player_to_game entries of its players.
C32_OtherGamesUnchanged ==
    [][\A t \in GameIds \cup {None} :
          (\/ \E c \in Conns : RecvJoin(c) /\ player_to_game'[c] = t
           \/ \E c \in Conns : RecvRoll(c, t) \/ RecvChat(c, t)
           \/ \E c \in Conns :
                /\ RecvLeave(c) \/ ConnectionEnd(c) \/ RecvOther(c, "invalid")
                /\ player_to_game[c] = t
           \/ \E c \in Conns :
                /\ task[c].pc = "broadcast"
                /\ BroadcastResume(c)
                /\ task[c].gid = t
           \/ timers # <<>> /\ CleanupFire /\ Head(timers).gid = t) =>
              \A g \in GameIds \ {t} :
                 /\ heap'[g] = heap[g]
                 /\ Registered(g) <=> \E i \in 1..Len(games') : games'[i] = g
                 /\ \A d \in Ids(heap, g) :
                        player_to_game[d] = g => player_to_game'[d] = g]_vars

\* The only player of the second game has gone and a clean-up task is
\* pending for it, while both players of the first, started game are
\* connected and registered with it.
C32_Witness ==
    \E g \in GameIds, h \in GameIds :
        /\ g # h
        /\ Registered(g) /\ Registered(h)
        /\ connected_players(heap, h) = 0
        /\ \E k \in 1..Len(timers) : timers[k].gid = h
        /\ heap[g].phase = "playing"
        /\ connected_players(heap, g) = MIN_PLAYERS
        /\ \A d \in Ids(heap, g) : player_to_game[d] = g


\* C33: a game is removed only one full delay after its count of connected
\* players last dropped to zero: the clean-up task that removes it was
\* created after the last reconnection to the game, never before it.
C33_RemovedAtLastDeadline ==
    [][\A g \in GameIds :
          (/\ timers # <<>>
           /\ CleanupFire
           /\ Head(timers).gid = g
           /\ Registered(g)
           /\ \A i \in 1..Len(games') : games'[i] # g) =>
                ~Head(timers).rejoined]_vars


\* C34: every registered game whose phase is waiting has exactly one player
\* and every registered game whose phase is playing has exactly two; no
\* game object ever has a third player. The step that appends the second
\* player of a game is the step that sets its phase to playing.
C34_PlayersPerPhase ==
    /\ [](\A g \in GameIds :
            /\ Len(heap[g].players) <= MIN_PLAYERS
            /\ Registered(g) =>
                /\ heap[g].phase = "waiting" => Len(heap[g].players) = 1
                /\ heap[g].phase = "playing" => Len(heap[g].players) = MIN_PLAYERS)
    /\ [][\A g \in GameIds :
            (Len(heap[g].players) = 1 /\ Len(heap'[g].players) = MIN_PLAYERS) =>
                (heap[g].phase = "waiting" /\ heap'[g].phase = "playing")]_vars

\* The second player has just been appended to a game, which has started
\* and is broadcasting its start, while a later joiner waits alone in a
\* second game.
C34_Witness ==
    \E g \in GameIds, h \in GameIds :
        /\ Registered(g) /\ Registered(h)
        /\ heap[g].phase = "playing" /\ Len(heap[g].players) = MIN_PLAYERS
        /\ heap[h].phase = "waiting" /\ Len(heap[h].players) = 1
        /\ \E c \in Conns : /\ task[c].pc = "broadcast"
                            /\ task[c].op = "join_game"
                            /\ task[c].gid = g


\* C35: at most one registered game has the phase waiting. A join_game
\* that registers a new game finds no waiting game in the registry, and a
\* join_game that is no reconnection and finds a waiting game enters it.
C35_OneWaitingGame ==
    /\ [](\A i, j \in 1..Len(games) :
            (heap[games[i]].phase = "waiting" /\ heap[games[j]].phase = "waiting")
                => i = j)
    /\ [][\A c \in Conns :
            LET waiting == {i \in 1..Len(games) : heap[games[i]].phase = "waiting"}
            IN  /\ (RecvJoin(c) /\ Len(games') > Len(games)) => waiting = {}
                /\ (RecvJoin(c) /\ ~IsReconnect(c) /\ waiting # {}) =>
                      /\ games' = games
                      /\ \E i \in waiting : player_to_game'[c] = games[i]]_vars

\* A game has just been registered for a joiner that found only a started
\* game: it is the one waiting game of the registry.
C35_Witness ==
    \E c \in Conns :
        /\ Len(games) = 2
        /\ heap[games[1]].phase = "playing"
        /\ heap[games[2]].phase = "waiting"
        /\ output = <<Event(c, "game_joined", games[2], ""),
                      Event(c, "game_state_update", games[2], "waiting")>>


\* C36: a join_game that is no reconnection never enters a registered game
\* that has no connected player; the game it enters or creates is one
\* whose current player is connected after the step.
C36_NoJoinIntoAbandonedGame ==
    [][\A c \in Conns :
          (RecvJoin(c) /\ ~IsReconnect(c)) =>
              LET g == player_to_game'[c]
              IN  /\ ~(Registered(g) /\ connected_players(heap, g) = 0)
                  /\ heap'[g].players[heap'[g].current_player_index + 1].is_connected]_vars


\* C37: no connection is sent a game_state_update of a game before its
\* game_joined of that game. The handler of c sends game_joined after its
\* join_game has returned, so while it is inside the broadcast of its own
\* join_game into g, a step delivers a game_state_update of g to c only
\* after a game_joined of g to c.
C37_JoinedBeforeStateUpdate ==
    [][\A c \in Conns, g \in GameIds :
          (/\ task[c].pc = "broadcast"
           /\ task[c].op = "join_game"
           /\ task[c].gid = g) =>
              \A k \in 1..Len(output') :
                  output'[k] = Event(c, "game_state_update", g, "playing") =>
                      \E j \in 1..(k - 1) : output'[j] = Event(c, "game_joined", g, "")]_vars


\* C38: the step that removes a game clears the player_to_game entry of
\* each of its players, so that none of them passes the reconnection test
\* afterwards. A join_game of a connection that has sent messages before
\* and has no entry is a first join: it enters the first waiting game of
\* the registry as its last player, with the color _get_available_color
\* gives there, or, when there is none, a newly registered game with a new
\* id, as its red first player; the game it enters is never one that has
\* left the registry.
C38_JoinAfterCleanupIsNew ==
    [][/\ \A g \in GameIds :
            (Registered(g) /\ \A i \in 1..Len(games') : games'[i] # g) =>
                \A c \in Ids(heap, g) :
                    /\ player_to_game'[c] = None
                    /\ ~IsReconnect(c)'
       /\ \A c \in Conns :
            (RecvJoin(c) /\ task[c].pc = "idle" /\ player_to_game[c] = None) =>
                LET g == player_to_game'[c]
                    ps == heap'[g].players
                IN  /\ \E i \in 1..Len(games') : games'[i] = g
                    /\ ~(g <= nextGame /\ ~Registered(g))
                    /\ ps[Len(ps)] = Player(c, ps[Len(ps)].color)
                    /\ IF FirstOpen # None
                       THEN /\ g = FirstOpen
                            /\ games' = games
                            /\ Len(ps) = Len(heap[g].players) + 1
                            /\ ps[Len(ps)].color = get_available_color(heap[g])
                       ELSE /\ g = nextGame + 1
                            /\ games' = Append(games, g)
                            /\ heap'[g] = NewGame(c)]_vars

\* The only connection that has sent messages had created the first game,
\* left it, and, the game removed, has joined again: it has got a second
\* game.
C38_Witness ==
    \E c \in Conns :
        /\ \A d \in Conns \ {c} : task[d].pc = "new"
        /\ ~Registered(1)
        /\ games = <<2>>
        /\ heap[2] = NewGame(c)
        /\ player_to_game[c] = 2
        /\ output = <<Event(c, "game_joined", 2, ""),
                      Event(c, "game_state_update", 2, "waiting")>>


====
